---- MODULE Spec2Model ----
(***************************************************************************)
(* Model of source/common/signal/fatal_error_handler.cc: the process-wide  *)
(* registry of fatal error handlers.  The registry is one atomic pointer   *)
(* (fatal_error_handlers) to a heap-allocated std::list of handler         *)
(* pointers, and one mutex (failure_mutex) taken by register/remove only.  *)
(* Every statement of the three functions that touches shared state is one *)
(* step of the calling thread, so all interleavings of the statements are  *)
(* explored.                                                               *)
(*                                                                         *)
(* Memory orders: the exchange is one atomic read-modify-write of the      *)
(* pointer and every read of the list is address-dependent on the value    *)
(* the exchange returned, so a thread that obtains a pointer sees the list *)
(* as it was when the pointer was stored.  The heap is modelled explicitly *)
(* (unalloc / live / freed) so that a use after delete, a double delete or *)
(* a null dereference shows up as memFault instead of being assumed away.  *)
(***************************************************************************)
EXTENDS Integers, Sequences, FiniteSets, TLC

\* ---- bounds of the model ----
NThreads == 2
NHandlers == 2
MaxOps == 4

\* nullptr, also the value of an unowned failure_mutex
NULL == 0

Threads == 1..NThreads
Handlers == 1..NHandlers
\* every list is allocated by a register call, so MaxOps addresses suffice
ListIds == 1..MaxOps

VARIABLES
    ENVOY_OBJECT_TRACE_ON_DUMP, \* build flag: TRUE when the macro is defined
    failure_mutex,              \* thread holding the mutex, or NULL
    fatal_error_handlers,       \* the atomic slot: a list address or NULL
    heap,                       \* address -> [st, items]: the FailureFunctionList objects
    pc,                         \* thread -> position in the function it runs
    list,                       \* thread -> its local variable `list`
    handler,                    \* thread -> its argument `handler` (NULL in call)
    it,                         \* thread -> position of the range-for iterator
    cur,                        \* thread -> id of the call it is running
    calls,                      \* history: every call made, in order of entry
    returned,                   \* history: ids of the calls that have returned
    os,                         \* history: the onFatalError calls, in order
    xchgBusy,                   \* history: invocations whose exchange happened
                                \*   while another call had a list checked out
    memFault,                   \* "none", or the kind of memory error that happened
    faulted,                    \* history: the invocations a handler fault cut short,
                                \*   each with the entries it had not reached
    nested                      \* history: <<k1, k2>> when invocation k2 was entered
                                \*   while invocation k1 was in its loop

vars == <<ENVOY_OBJECT_TRACE_ON_DUMP, failure_mutex, fatal_error_handlers, heap,
          pc, list, handler, it, cur, calls, returned, os, xchgBusy, memFault,
          faulted, nested>>

\* a std::list element: the handler pointer, tagged with the id of the
\* register call that pushed it (the tag is history, the code compares h only)
Entry(h, r) == [h |-> h, reg |-> r]

Init ==
    /\ ENVOY_OBJECT_TRACE_ON_DUMP \in BOOLEAN
    /\ failure_mutex = NULL
    /\ fatal_error_handlers = NULL
    /\ heap = [a \in ListIds |-> [st |-> "unalloc", items |-> <<>>]]
    /\ pc = [t \in Threads |-> "idle"]
    /\ list = [t \in Threads |-> NULL]
    /\ handler = [t \in Threads |-> NULL]
    /\ it = [t \in Threads |-> 0]
    /\ cur = [t \in Threads |-> 0]
    /\ calls = <<>>
    /\ returned = {}
    /\ os = <<>>
    /\ xchgBusy = {}
    /\ memFault = "none"
    /\ faulted = {}
    /\ nested = {}

\* ---- helpers ----

\* positions between a thread's exchange and its store or delete: there the
\* thread owns the list its local `list` points to, if it points to one
HoldingPcs == {"r_new", "r_push", "r_store",
               "u_check", "u_remove", "u_empty", "u_delete", "u_store",
               "c_check", "c_iter", "c_delete"}

Holds(t) == pc[t] \in HoldingPcs /\ list[t] # NULL

\* a register or remove call that has the list checked out
AdminPcs == {"r_new", "r_push", "r_store",
             "u_check", "u_remove", "u_empty", "u_delete", "u_store"}

CheckedOut == \E u \in Threads : pc[u] \in AdminPcs

Live(a) == a # NULL /\ heap[a].st = "live"

\* operator new: the lowest address never handed out (no address reuse)
NewList == CHOOSE a \in ListIds : heap[a].st = "unalloc" /\
              \A b \in ListIds : b < a => heap[b].st # "unalloc"

\* mutant: register and remove run without waiting for the lock
MutexFreeIgnored == TRUE

\* absl::Mutex: can the lock be taken now
MutexFree == failure_mutex = NULL

\* mutant: a load in place of the exchange, the slot keeps its value
ExchangeStoredLoad(old) == old

\* std::atomic::exchange(nullptr): the value left in the slot
ExchangeStored(old) == NULL

\* mutant: push_front in place of push_back
push_front(l, e) == <<e>> \o l

\* std::list::push_back
push_back(l, e) == Append(l, e)

\* mutant: erase from the first element equal to value to the end of the list
removeAndAfter(l, h) ==
    LET idx == {i \in 1..Len(l) : l[i].h = h}
        m == CHOOSE i \in idx : \A j \in idx : i <= j
    IN IF idx = {} THEN l ELSE SubSeq(l, 1, m - 1)

\* mutant: erase only the first element equal to value
removeFirst(l, h) ==
    LET idx == {i \in 1..Len(l) : l[i].h = h}
        m == CHOOSE i \in idx : \A j \in idx : i <= j
    IN IF idx = {} THEN l ELSE SubSeq(l, 1, m - 1) \o SubSeq(l, m + 1, Len(l))

\* std::list::remove(value): erases every element equal to value
remove(l, h) == SelectSeq(l, LAMBDA e : e.h # h)

\* the threads inside the range-for of an invocation, a loop a handler fault
\* has cut short included
InLoop == {u \in Threads : pc[u] \in {"c_iter", "faulted"}}

\* function entry: the call is recorded with the calls that had returned by then
Enter(t, op, h, to) ==
    /\ pc[t] = "idle"
    /\ Len(calls) < MaxOps
    /\ calls' = Append(calls, [op |-> op, h |-> h, t |-> t, before |-> returned])
    /\ cur' = [cur EXCEPT ![t] = Len(calls) + 1]
    /\ handler' = [handler EXCEPT ![t] = h]
    /\ pc' = [pc EXCEPT ![t] = to]
    /\ nested' = IF op = "call"
                   THEN nested \cup {<<cur[u], Len(calls) + 1>> : u \in InLoop}
                   ELSE nested
    /\ UNCHANGED <<ENVOY_OBJECT_TRACE_ON_DUMP, faulted, failure_mutex,
                   fatal_error_handlers, heap, list, it, returned, os, xchgBusy,
                   memFault>>

\* function return: locals go out of scope
Return(t) ==
    /\ pc' = [pc EXCEPT ![t] = "idle"]
    /\ list' = [list EXCEPT ![t] = NULL]
    /\ handler' = [handler EXCEPT ![t] = NULL]
    /\ it' = [it EXCEPT ![t] = 0]
    /\ cur' = [cur EXCEPT ![t] = 0]
    /\ returned' = returned \cup {cur[t]}

\* the thread dies on a memory error
Crash(t, kind) ==
    /\ pc' = [pc EXCEPT ![t] = "crashed"]
    /\ memFault' = kind
    /\ UNCHANGED <<ENVOY_OBJECT_TRACE_ON_DUMP, faulted, nested,
                   failure_mutex, fatal_error_handlers,
                   heap, list, handler, it, cur, calls, returned, os, xchgBusy>>

\* what a dereference of address a is: fine, or a memory error
Deref(a) == IF a = NULL THEN "null_deref"
            ELSE IF heap[a].st = "live" THEN "none" ELSE "use_after_free"

\* ---- registerFatalErrorHandler ----

\* mutant: the #ifdef is missing, the body runs whatever the build flag
registerFatalErrorHandlerAlways(t, h) == Enter(t, "register", h, "r_lock")

registerFatalErrorHandler(t, h) ==
    Enter(t, "register", h, IF ENVOY_OBJECT_TRACE_ON_DUMP THEN "r_lock" ELSE "r_noop")

\* #else branch: UNREFERENCED_PARAMETER(handler)
RegisterNoop(t) ==
    /\ pc[t] = "r_noop"
    /\ Return(t)
    /\ UNCHANGED <<ENVOY_OBJECT_TRACE_ON_DUMP, faulted, nested,
                   failure_mutex, fatal_error_handlers,
                   heap, calls, os, xchgBusy, memFault>>

RegisterLock(t) ==
    /\ pc[t] = "r_lock"
    /\ MutexFree
    /\ failure_mutex' = t
    /\ pc' = [pc EXCEPT ![t] = "r_xchg"]
    /\ UNCHANGED <<ENVOY_OBJECT_TRACE_ON_DUMP, faulted, nested,
                   fatal_error_handlers, heap, list,
                   handler, it, cur, calls, returned, os, xchgBusy, memFault>>

RegisterExchange(t) ==
    /\ pc[t] = "r_xchg"
    /\ list' = [list EXCEPT ![t] = fatal_error_handlers]
    /\ fatal_error_handlers' = ExchangeStored(fatal_error_handlers)
    /\ pc' = [pc EXCEPT ![t] = "r_new"]
    /\ UNCHANGED <<ENVOY_OBJECT_TRACE_ON_DUMP, faulted, nested,
                   failure_mutex, heap, handler, it,
                   cur, calls, returned, os, xchgBusy, memFault>>

RegisterNew(t) ==
    /\ pc[t] = "r_new"
    /\ IF list[t] = NULL
         THEN /\ list' = [list EXCEPT ![t] = NewList]
              /\ heap' = [heap EXCEPT ![NewList] = [st |-> "live", items |-> <<>>]]
         ELSE UNCHANGED <<list, heap>>
    /\ pc' = [pc EXCEPT ![t] = "r_push"]
    /\ UNCHANGED <<ENVOY_OBJECT_TRACE_ON_DUMP, faulted, nested,
                   failure_mutex, fatal_error_handlers,
                   handler, it, cur, calls, returned, os, xchgBusy, memFault>>

RegisterPush(t) ==
    /\ pc[t] = "r_push"
    /\ \/ /\ Deref(list[t]) # "null_deref"
          /\ heap' = [heap EXCEPT ![list[t]].items =
                         push_back(@, Entry(handler[t], cur[t]))]
          /\ memFault' = IF Live(list[t]) THEN memFault ELSE Deref(list[t])
          /\ pc' = [pc EXCEPT ![t] = "r_store"]
          /\ UNCHANGED <<ENVOY_OBJECT_TRACE_ON_DUMP, faulted, nested,
                         failure_mutex,
                         fatal_error_handlers, list, handler, it, cur, calls,
                         returned, os, xchgBusy>>
       \/ /\ Deref(list[t]) # "none"
          /\ Crash(t, Deref(list[t]))

RegisterStore(t) ==
    /\ pc[t] = "r_store"
    /\ fatal_error_handlers' = list[t]
    /\ pc' = [pc EXCEPT ![t] = "r_unlock"]
    /\ UNCHANGED <<ENVOY_OBJECT_TRACE_ON_DUMP, faulted, nested,
                   failure_mutex, heap, list, handler,
                   it, cur, calls, returned, os, xchgBusy, memFault>>

\* ~MutexLock at the closing brace
RegisterUnlock(t) ==
    /\ pc[t] = "r_unlock"
    /\ failure_mutex' = NULL
    /\ Return(t)
    /\ UNCHANGED <<ENVOY_OBJECT_TRACE_ON_DUMP, faulted, nested,
                   fatal_error_handlers, heap, calls,
                   os, xchgBusy, memFault>>

\* ---- removeFatalErrorHandler ----

removeFatalErrorHandler(t, h) ==
    Enter(t, "remove", h, IF ENVOY_OBJECT_TRACE_ON_DUMP THEN "u_lock" ELSE "u_noop")

\* #else branch: UNREFERENCED_PARAMETER(handler)
RemoveNoop(t) ==
    /\ pc[t] = "u_noop"
    /\ Return(t)
    /\ UNCHANGED <<ENVOY_OBJECT_TRACE_ON_DUMP, faulted, nested,
                   failure_mutex, fatal_error_handlers,
                   heap, calls, os, xchgBusy, memFault>>

RemoveLock(t) ==
    /\ pc[t] = "u_lock"
    /\ MutexFree
    /\ failure_mutex' = t
    /\ pc' = [pc EXCEPT ![t] = "u_xchg"]
    /\ UNCHANGED <<ENVOY_OBJECT_TRACE_ON_DUMP, faulted, nested,
                   fatal_error_handlers, heap, list,
                   handler, it, cur, calls, returned, os, xchgBusy, memFault>>

RemoveExchange(t) ==
    /\ pc[t] = "u_xchg"
    /\ list' = [list EXCEPT ![t] = fatal_error_handlers]
    /\ fatal_error_handlers' = ExchangeStored(fatal_error_handlers)
    /\ pc' = [pc EXCEPT ![t] = "u_check"]
    /\ UNCHANGED <<ENVOY_OBJECT_TRACE_ON_DUMP, faulted, nested,
                   failure_mutex, heap, handler, it,
                   cur, calls, returned, os, xchgBusy, memFault>>

\* mutant: the early return leaves failure_mutex locked
RemoveCheckNoUnlock(t) ==
    /\ pc[t] = "u_check"
    /\ IF list[t] = NULL
         THEN Return(t)
         ELSE /\ pc' = [pc EXCEPT ![t] = "u_remove"]
              /\ UNCHANGED <<list, handler, it, cur, returned>>
    /\ UNCHANGED <<ENVOY_OBJECT_TRACE_ON_DUMP, faulted, nested, failure_mutex,
                   fatal_error_handlers, heap, calls, os, xchgBusy, memFault>>

\* mutant: the null test is missing, the list is used whatever the exchange gave
RemoveCheckNoNullTest(t) ==
    /\ pc[t] = "u_check"
    /\ pc' = [pc EXCEPT ![t] = "u_remove"]
    /\ UNCHANGED <<ENVOY_OBJECT_TRACE_ON_DUMP, faulted, nested,
                   failure_mutex, fatal_error_handlers,
                   heap, list, handler, it, cur, calls, returned, os, xchgBusy,
                   memFault>>

\* if (list == nullptr) return;  the return runs ~MutexLock
RemoveCheck(t) ==
    /\ pc[t] = "u_check"
    /\ IF list[t] = NULL
         THEN /\ failure_mutex' = NULL
              /\ Return(t)
         ELSE /\ pc' = [pc EXCEPT ![t] = "u_remove"]
              /\ UNCHANGED <<failure_mutex, list, handler, it, cur, returned>>
    /\ UNCHANGED <<ENVOY_OBJECT_TRACE_ON_DUMP, faulted, nested,
                   fatal_error_handlers, heap, calls,
                   os, xchgBusy, memFault>>

\* list->remove(&handler)
RemoveRemove(t) ==
    /\ pc[t] = "u_remove"
    /\ \/ /\ Deref(list[t]) # "null_deref"
          /\ heap' = [heap EXCEPT ![list[t]].items = remove(@, handler[t])]
          /\ memFault' = IF Live(list[t]) THEN memFault ELSE Deref(list[t])
          /\ pc' = [pc EXCEPT ![t] = "u_empty"]
          /\ UNCHANGED <<ENVOY_OBJECT_TRACE_ON_DUMP, faulted, nested,
                         failure_mutex,
                         fatal_error_handlers, list, handler, it, cur, calls,
                         returned, os, xchgBusy>>
       \/ /\ Deref(list[t]) # "none"
          /\ Crash(t, Deref(list[t]))

\* mutant: the empty test is missing, the list is always stored back
RemoveEmptyAlwaysStore(t) ==
    /\ pc[t] = "u_empty"
    /\ pc' = [pc EXCEPT ![t] = "u_store"]
    /\ UNCHANGED <<ENVOY_OBJECT_TRACE_ON_DUMP, faulted, nested,
                   failure_mutex, fatal_error_handlers,
                   heap, list, handler, it, cur, calls, returned, os, xchgBusy,
                   memFault>>

\* if (list->empty())
RemoveEmpty(t) ==
    /\ pc[t] = "u_empty"
    /\ \/ /\ Deref(list[t]) # "null_deref"
          /\ pc' = [pc EXCEPT ![t] = IF heap[list[t]].items = <<>>
                                       THEN "u_delete" ELSE "u_store"]
          /\ memFault' = IF Live(list[t]) THEN memFault ELSE Deref(list[t])
          /\ UNCHANGED <<ENVOY_OBJECT_TRACE_ON_DUMP, faulted, nested,
                         failure_mutex,
                         fatal_error_handlers, heap, list, handler, it, cur, calls,
                         returned, os, xchgBusy>>
       \/ /\ Deref(list[t]) # "none"
          /\ Crash(t, Deref(list[t]))

RemoveDelete(t) ==
    /\ pc[t] = "u_delete"
    /\ IF Live(list[t])
         THEN /\ heap' = [heap EXCEPT ![list[t]].st = "freed"]
              /\ pc' = [pc EXCEPT ![t] = "u_unlock"]
              /\ UNCHANGED <<ENVOY_OBJECT_TRACE_ON_DUMP, faulted, nested,
                             failure_mutex,
                             fatal_error_handlers, list, handler, it, cur, calls,
                             returned, os, xchgBusy, memFault>>
         ELSE Crash(t, "double_free")

RemoveStore(t) ==
    /\ pc[t] = "u_store"
    /\ fatal_error_handlers' = list[t]
    /\ pc' = [pc EXCEPT ![t] = "u_unlock"]
    /\ UNCHANGED <<ENVOY_OBJECT_TRACE_ON_DUMP, faulted, nested,
                   failure_mutex, heap, list, handler,
                   it, cur, calls, returned, os, xchgBusy, memFault>>

\* ~MutexLock at the closing brace
RemoveUnlock(t) ==
    /\ pc[t] = "u_unlock"
    /\ failure_mutex' = NULL
    /\ Return(t)
    /\ UNCHANGED <<ENVOY_OBJECT_TRACE_ON_DUMP, faulted, nested,
                   fatal_error_handlers, heap, calls,
                   os, xchgBusy, memFault>>

\* ---- callFatalErrorHandlers ----

callFatalErrorHandlers(t) == Enter(t, "call", NULL, "c_xchg")

\* mutant: the invocation path waits for the failure mutex
CallCanExchangeLocked(t) == pc[t] = "c_xchg" /\ MutexFree

\* the invocation path takes no lock: its exchange is enabled whatever the mutex
CallCanExchange(t) == pc[t] = "c_xchg"

CallExchange(t) ==
    /\ CallCanExchange(t)
    /\ list' = [list EXCEPT ![t] = fatal_error_handlers]
    /\ fatal_error_handlers' = ExchangeStored(fatal_error_handlers)
    /\ xchgBusy' = IF CheckedOut THEN xchgBusy \cup {cur[t]} ELSE xchgBusy
    /\ pc' = [pc EXCEPT ![t] = "c_check"]
    /\ UNCHANGED <<ENVOY_OBJECT_TRACE_ON_DUMP, faulted, nested,
                   failure_mutex, heap, handler, it,
                   cur, calls, returned, os, memFault>>

\* if (list): begin() of the range-for, or return
CallCheck(t) ==
    /\ pc[t] = "c_check"
    /\ IF list[t] # NULL
         THEN /\ it' = [it EXCEPT ![t] = 1]
              /\ pc' = [pc EXCEPT ![t] = "c_iter"]
              /\ UNCHANGED <<list, handler, cur, returned>>
         ELSE Return(t)
    /\ UNCHANGED <<ENVOY_OBJECT_TRACE_ON_DUMP, faulted, nested,
                   failure_mutex, fatal_error_handlers,
                   heap, calls, os, xchgBusy, memFault>>

\* one turn of the loop: handler->onFatalError(os), or the loop ends
CallIter(t) ==
    /\ pc[t] = "c_iter"
    /\ \/ /\ Deref(list[t]) # "null_deref"
          /\ IF it[t] <= Len(heap[list[t]].items)
               THEN /\ os' = Append(os, [inv |-> cur[t],
                                         h |-> heap[list[t]].items[it[t]].h,
                                         reg |-> heap[list[t]].items[it[t]].reg])
                    /\ it' = [it EXCEPT ![t] = @ + 1]
                    /\ pc' = pc
               ELSE /\ pc' = [pc EXCEPT ![t] = "c_delete"]
                    /\ UNCHANGED <<os, it>>
          /\ memFault' = IF Live(list[t]) THEN memFault ELSE Deref(list[t])
          /\ UNCHANGED <<ENVOY_OBJECT_TRACE_ON_DUMP, faulted, nested,
                         failure_mutex,
                         fatal_error_handlers, heap, list, handler, cur, calls,
                         returned, xchgBusy>>
       \/ /\ Deref(list[t]) # "none"
          /\ Crash(t, Deref(list[t]))

\* mutant: the list is put back in the slot after the loop instead of deleted
CallDeleteRestore(t) ==
    /\ pc[t] = "c_delete"
    /\ fatal_error_handlers' = list[t]
    /\ Return(t)
    /\ UNCHANGED <<ENVOY_OBJECT_TRACE_ON_DUMP, faulted, nested,
                   failure_mutex, heap, calls, os,
                   xchgBusy, memFault>>

CallDelete(t) ==
    /\ pc[t] = "c_delete"
    /\ IF Live(list[t])
         THEN /\ heap' = [heap EXCEPT ![list[t]].st = "freed"]
              /\ Return(t)
              /\ UNCHANGED <<ENVOY_OBJECT_TRACE_ON_DUMP, faulted, nested,
                             failure_mutex,
                             fatal_error_handlers, calls, os, xchgBusy, memFault>>
         ELSE Crash(t, "double_free")

\* ---- a handler that faults ----

\* handler->onFatalError(os) is called and faults: the loop never resumes,
\* the entries after it are not reached and the list is never deleted
HandlerFault(t) ==
    /\ pc[t] = "c_iter"
    /\ Live(list[t])
    /\ it[t] <= Len(heap[list[t]].items)
    /\ os' = Append(os, [inv |-> cur[t],
                         h |-> heap[list[t]].items[it[t]].h,
                         reg |-> heap[list[t]].items[it[t]].reg])
    /\ faulted' = faulted \cup
          {[inv |-> cur[t],
            skipped |-> SubSeq(heap[list[t]].items, it[t] + 1,
                               Len(heap[list[t]].items))]}
    /\ pc' = [pc EXCEPT ![t] = "faulted"]
    /\ UNCHANGED <<ENVOY_OBJECT_TRACE_ON_DUMP, nested, failure_mutex,
                   fatal_error_handlers, heap, list, handler, it, cur, calls,
                   returned, xchgBusy, memFault>>

\* the fault is a second fatal error: callFatalErrorHandlers is entered again
\* on the same thread, on top of the frame that faulted
NestedCall(t) ==
    /\ pc[t] = "faulted"
    /\ Len(calls) < MaxOps
    /\ calls' = Append(calls, [op |-> "call", h |-> NULL, t |-> t,
                               before |-> returned])
    /\ nested' = nested \cup {<<cur[u], Len(calls) + 1>> : u \in InLoop}
    /\ cur' = [cur EXCEPT ![t] = Len(calls) + 1]
    /\ list' = [list EXCEPT ![t] = NULL]
    /\ it' = [it EXCEPT ![t] = 0]
    /\ pc' = [pc EXCEPT ![t] = "c_xchg"]
    /\ UNCHANGED <<ENVOY_OBJECT_TRACE_ON_DUMP, faulted, failure_mutex,
                   fatal_error_handlers, heap, handler, returned, os, xchgBusy,
                   memFault>>


Next ==
    \/ \E t \in Threads, h \in Handlers : registerFatalErrorHandler(t, h)
    \/ \E t \in Threads : RegisterNoop(t)
    \/ \E t \in Threads : RegisterLock(t)
    \/ \E t \in Threads : RegisterExchange(t)
    \/ \E t \in Threads : RegisterNew(t)
    \/ \E t \in Threads : RegisterPush(t)
    \/ \E t \in Threads : RegisterStore(t)
    \/ \E t \in Threads : RegisterUnlock(t)
    \/ \E t \in Threads, h \in Handlers : removeFatalErrorHandler(t, h)
    \/ \E t \in Threads : RemoveNoop(t)
    \/ \E t \in Threads : RemoveLock(t)
    \/ \E t \in Threads : RemoveExchange(t)
    \/ \E t \in Threads : RemoveCheck(t)
    \/ \E t \in Threads : RemoveRemove(t)
    \/ \E t \in Threads : RemoveEmpty(t)
    \/ \E t \in Threads : RemoveDelete(t)
    \/ \E t \in Threads : RemoveStore(t)
    \/ \E t \in Threads : RemoveUnlock(t)
    \/ \E t \in Threads : callFatalErrorHandlers(t)
    \/ \E t \in Threads : CallExchange(t)
    \/ \E t \in Threads : CallCheck(t)
    \/ \E t \in Threads : CallIter(t)
    \/ \E t \in Threads : CallDelete(t)

Spec == Init /\ [][Next]_vars

\* the steps of thread t inside callFatalErrorHandlers
CallStep(t) == CallExchange(t) \/ CallCheck(t) \/ CallIter(t) \/ CallDelete(t)

\* every step of thread t after the entry of the function it runs
ThreadStep(t) ==
    \/ RegisterNoop(t) \/ RegisterLock(t) \/ RegisterExchange(t) \/ RegisterNew(t)
    \/ RegisterPush(t) \/ RegisterStore(t) \/ RegisterUnlock(t)
    \/ RemoveNoop(t) \/ RemoveLock(t) \/ RemoveExchange(t) \/ RemoveCheck(t)
    \/ RemoveRemove(t) \/ RemoveEmpty(t) \/ RemoveDelete(t) \/ RemoveStore(t)
    \/ RemoveUnlock(t)
    \/ CallStep(t)

\* only the invoking threads are scheduled fairly: a thread inside register or
\* remove may stop for ever, also while it holds failure_mutex
InvokeFairSpec == Init /\ [][Next]_vars /\ \A t \in Threads : WF_vars(CallStep(t))

\* the program with handlers that may fault
NextFault ==
    \/ Next
    \/ \E t \in Threads : HandlerFault(t)
    \/ \E t \in Threads : NestedCall(t)

FaultSpec == Init /\ [][NextFault]_vars

\* every thread is scheduled fairly and every handler returns
FairSpec == Init /\ [][Next]_vars /\ \A t \in Threads : WF_vars(ThreadStep(t))

\* ---- vocabulary of the properties ----

CallPcs == {"c_xchg", "c_check", "c_iter", "c_delete"}

Quiescent == \A t \in Threads : pc[t] = "idle"

\* the onFatalError calls made by invocation k
OsOf(k) == SelectSeq(os, LAMBDA e : e.inv = k)

\* call i was entered when every earlier call had returned
EnteredAlone(i) == calls[i].before = 1..(i - 1)

\* no call was entered while call k was running
RanAlone(k) == EnteredAlone(k) /\ \A j \in (k + 1)..Len(calls) : k \in calls[j].before

\* calls 1..n were made one after the other
Sequential(n) == \A i \in 1..n : EnteredAlone(i)

\* the calls made so far, as <<function, handler>> pairs
Ops == [i \in 1..Len(calls) |-> <<calls[i].op, calls[i].h>>]

\* what invocation k prints when it runs the entries of l
Printed(k, l) == [i \in 1..Len(l) |-> [inv |-> k, h |-> l[i].h, reg |-> l[i].reg]]

\* the list the slot points to (empty when the slot is null)
SlotItems == IF fatal_error_handlers = NULL THEN <<>>
             ELSE heap[fatal_error_handlers].items

NoLiveList == \A a \in ListIds : heap[a].st # "live"

\* ---- C1 ----
\* calls 1..k-1 are register calls made one after the other, call k is an
\* invocation that ran with no other call in progress
RegistersThenCall(k) ==
    /\ calls[k].op = "call"
    /\ k \in returned
    /\ \A i \in 1..(k - 1) : calls[i].op = "register"
    /\ Sequential(k - 1)
    /\ RanAlone(k)

\* C1: in a build with ENVOY_OBJECT_TRACE_ON_DUMP, after register calls with
\* handlers h1..hn made from the empty registry and no remove, an invocation
\* made in a quiescent state calls onFatalError on h1..hn in registration
\* order, once for each registration, and on nothing else.
C1_RegistrationOrder ==
    ENVOY_OBJECT_TRACE_ON_DUMP =>
        \A k \in 1..Len(calls) :
            RegistersThenCall(k) =>
                OsOf(k) = Printed(k, [i \in 1..(k - 1) |-> Entry(calls[i].h, i)])

C1_Witness ==
    /\ ENVOY_OBJECT_TRACE_ON_DUMP
    /\ Len(calls) >= 3
    /\ RegistersThenCall(3)
    /\ calls[1].h # calls[2].h
    /\ Len(os) = 2

\* ---- C2 ----
\* C2 as stated: once an invocation k1 has completed, an invocation entered
\* later calls no registration whose register call had returned before k1 was
\* entered, whatever register/remove calls are in flight.
C2_Original ==
    \A n \in 1..Len(os) : \A k1 \in calls[os[n].inv].before :
        calls[k1].op = "call" => os[n].reg \notin calls[k1].before

\* C2 amended: the same, for a first invocation whose exchange happened while
\* no register or remove call was between its own exchange and its store,
\* delete or return.
C2_SecondInvocationSilent ==
    \A n \in 1..Len(os) : \A k1 \in calls[os[n].inv].before :
        (calls[k1].op = "call" /\ k1 \notin xchgBusy)
            => os[n].reg \notin calls[k1].before

\* a second invocation has returned after a first one that took a list and
\* ran its handlers; a register was in flight in between
C2_Witness ==
    \E k1, k2 \in returned :
        /\ calls[k1].op = "call" /\ calls[k2].op = "call"
        /\ k1 \in calls[k2].before
        /\ k1 \notin xchgBusy
        /\ OsOf(k1) # <<>>
        /\ \E r \in 1..Len(calls) : calls[r].op = "register" /\ r > k1

\* ---- C3 ----
\* the calls made are exactly ops, one after the other, and all have returned
Scenario(ops) ==
    /\ ENVOY_OBJECT_TRACE_ON_DUMP
    /\ Ops = ops
    /\ Sequential(Len(calls))
    /\ returned = 1..Len(calls)

\* C3 as stated: register(h), register(h), remove(h), invoke calls h exactly
\* once; register(h), register(h), invoke calls it twice.
C3_Original ==
    \A h \in Handlers :
        /\ Scenario(<<<<"register", h>>, <<"register", h>>, <<"remove", h>>,
                      <<"call", NULL>>>>) => Len(os) = 1
        /\ Scenario(<<<<"register", h>>, <<"register", h>>, <<"call", NULL>>>>)
               => Len(os) = 2

\* C3 amended: after register(h), register(h), remove(h) no instance of h is
\* registered (list->remove erases every equal element, the emptied list is
\* deleted and the slot is null), so a following invocation calls h zero
\* times; without the remove the invocation calls h twice.
C3_RemoveErasesAllInstances ==
    \A h \in Handlers :
        /\ Scenario(<<<<"register", h>>, <<"register", h>>, <<"remove", h>>>>)
               => fatal_error_handlers = NULL /\ NoLiveList
        /\ Scenario(<<<<"register", h>>, <<"register", h>>, <<"remove", h>>,
                      <<"call", NULL>>>>) => os = <<>>
        /\ Scenario(<<<<"register", h>>, <<"register", h>>, <<"call", NULL>>>>)
               => os = Printed(3, <<Entry(h, 1), Entry(h, 2)>>)

C3_Witness ==
    \E h \in Handlers :
        Scenario(<<<<"register", h>>, <<"register", h>>, <<"remove", h>>,
                   <<"call", NULL>>>>)

\* ---- C4 ----
\* C4: after register(A), register(B) and one invocation, made one after the
\* other, the sink has A's output then B's output, each once, the slot is
\* null and the list is freed; a second invocation calls nothing and leaves
\* the slot null.
C4_OneShotScenario ==
    \A a, b \in Handlers :
        LET first == <<<<"register", a>>, <<"register", b>>, <<"call", NULL>>>>
            second == Append(first, <<"call", NULL>>)
        IN /\ Scenario(first) =>
                 /\ os = Printed(3, <<Entry(a, 1), Entry(b, 2)>>)
                 /\ fatal_error_handlers = NULL
                 /\ NoLiveList /\ heap[1].st = "freed"
           /\ (ENVOY_OBJECT_TRACE_ON_DUMP /\ Ops = second /\ Sequential(4)) =>
                 /\ os = Printed(3, <<Entry(a, 1), Entry(b, 2)>>)
                 /\ fatal_error_handlers = NULL
                 /\ NoLiveList /\ heap[1].st = "freed"

C4_Witness ==
    Scenario(<<<<"register", 1>>, <<"register", 2>>, <<"call", NULL>>,
               <<"call", NULL>>>>)

\* ---- C5 ----
\* C5: a remove call whose exchange returned null finds the slot still null,
\* and its next step is its return: the mutex is released, the slot stays
\* null, no list is touched and no handler is called.
C5_RemoveOnNullSlot ==
    [][\A t \in Threads :
          (pc[t] = "u_check" /\ list[t] = NULL) =>
              /\ fatal_error_handlers = NULL
              /\ pc'[t] # pc[t] =>
                    /\ pc'[t] = "idle"
                    /\ failure_mutex' = NULL
                    /\ fatal_error_handlers' = NULL
                    /\ heap' = heap
                    /\ os' = os
                    /\ memFault' = "none"]_vars

\* a remove made on the empty registry has returned
C5_Witness ==
    /\ ENVOY_OBJECT_TRACE_ON_DUMP
    /\ \E k \in returned : calls[k].op = "remove" /\ EnteredAlone(k)
                           /\ \A i \in 1..(k - 1) : calls[i].op # "register"
    /\ failure_mutex = NULL
    /\ fatal_error_handlers = NULL

\* ---- C6 ----
\* C6: no step of callFatalErrorHandlers changes failure_mutex, and an
\* invocation that has been entered returns even when the threads inside
\* register or remove never run again.
C6_InvokeNeverBlocked ==
    /\ [][\A t \in Threads : CallStep(t) => failure_mutex' = failure_mutex]_vars
    /\ \A t \in Threads : (pc[t] \in CallPcs) ~> (pc[t] = "idle")

\* an invocation has returned whose exchange happened while a register or
\* remove call had the list checked out, and that call still holds the mutex
C6_Witness ==
    /\ failure_mutex # NULL
    /\ \E k \in returned :
          /\ calls[k].op = "call"
          /\ k \in xchgBusy
          /\ cur[failure_mutex] \in 1..(k - 1)

\* ---- C7 ----
\* the threads that own list a
Owners(a) == {t \in Threads : Holds(t) /\ list[t] = a}

\* C7: every live list is referenced by the slot or held by one call between
\* its exchange and its store or delete, never both and never by two calls.
C7_SingleOwner ==
    \A a \in ListIds :
        Live(a) => Cardinality(Owners(a)) +
                   (IF fatal_error_handlers = a THEN 1 ELSE 0) <= 1

\* a register or remove owns the list while an invocation that lost the
\* exchange holds null
C7_Witness ==
    \E t, u \in Threads :
        /\ pc[t] \in AdminPcs /\ Live(list[t]) /\ heap[list[t]].items # <<>>
        /\ pc[u] = "c_check" /\ list[u] = NULL
        /\ fatal_error_handlers = NULL

\* ---- C8 ----
\* n register calls made one after the other, then one invocation and one
\* remove, entered in either order after the registers returned
RaceAfter(n) ==
    /\ ENVOY_OBJECT_TRACE_ON_DUMP
    /\ Len(calls) \in {n + 1, n + 2}
    /\ \A i \in 1..n : calls[i].op = "register" /\ EnteredAlone(i)
    /\ \A i \in (n + 1)..Len(calls) :
          calls[i].op \in {"call", "remove"} /\ 1..n \subseteq calls[i].before
    /\ Len(calls) = n + 2 => calls[n + 1].op # calls[n + 2].op

\* the entries registered before the race
Registered(n) == [i \in 1..n |-> Entry(calls[i].h, i)]

\* C8: in every interleaving of one invocation with one remove(h): no memory
\* error happens, neither call is ever blocked, the remove works on a live
\* list only it can reach, and once both have returned either the invocation
\* ran every registered handler and the remove changed nothing, or the
\* remove erased h and the invocation ran what was left, or the invocation
\* found the list checked out, ran nothing, and the slot holds what was left.
C8_InvokeRemoveRace ==
    \A n \in 0..Len(calls) :
        RaceAfter(n) =>
            /\ memFault = "none"
            /\ \A t \in Threads : pc[t] # "crashed"
            /\ \A t \in Threads : pc[t] # "idle" => ENABLED ThreadStep(t)
            /\ \A t \in Threads :
                  pc[t] \in {"u_remove", "u_empty", "u_delete", "u_store"} =>
                      /\ Live(list[t])
                      /\ fatal_error_handlers # list[t]
                      /\ \A u \in Threads \ {t} : list[u] # list[t]
            /\ (Len(calls) = n + 2 /\ returned = 1..(n + 2)) =>
                  LET c == IF calls[n + 1].op = "call" THEN n + 1 ELSE n + 2
                      r == IF calls[n + 1].op = "call" THEN n + 2 ELSE n + 1
                      all == Registered(n)
                      left == SelectSeq(all, LAMBDA e : e.h # calls[r].h)
                  IN \/ /\ os = Printed(c, all)
                        /\ fatal_error_handlers = NULL /\ NoLiveList
                     \/ /\ os = Printed(c, left)
                        /\ fatal_error_handlers = NULL /\ NoLiveList
                     \/ /\ os = <<>>
                        /\ SlotItems = left
                        /\ fatal_error_handlers = NULL <=> left = <<>>

\* both have returned, they overlapped, and the remove had something to erase
C8_Witness ==
    \E n \in 1..Len(calls) :
        /\ RaceAfter(n)
        /\ Len(calls) = n + 2 /\ returned = 1..(n + 2)
        /\ (n + 1) \notin calls[n + 2].before
        /\ \E i \in 1..n : \E j \in {n + 1, n + 2} :
              calls[j].op = "remove" /\ calls[j].h = calls[i].h

\* ---- C9 ----
\* the total orders of the calls made that keep every thread's program order
ProgramOrders ==
    {p \in [1..Len(calls) -> 1..Len(calls)] :
        /\ \A i, j \in 1..Len(calls) : i # j => p[i] # p[j]
        /\ \A i, j \in 1..Len(calls) :
              (i < j /\ calls[p[i]].t = calls[p[j]].t) => p[i] < p[j]}

\* the registry after the first n calls of order p, applied one at a time
RECURSIVE Serial(_, _)
Serial(p, n) ==
    IF n = 0 THEN <<>>
    ELSE LET before == Serial(p, n - 1)
             c == calls[p[n]]
         IN IF c.op = "register" THEN Append(before, Entry(c.h, p[n]))
            ELSE SelectSeq(before, LAMBDA e : e.h # c.h)

\* C9: when register and remove calls made from several threads, with no
\* invocation, have all returned, the slot holds the list that results from
\* applying the calls one at a time in some total order that keeps each
\* thread's program order, and is null exactly when that list is empty.
C9_Serializable ==
    (/\ ENVOY_OBJECT_TRACE_ON_DUMP
     /\ returned = 1..Len(calls)
     /\ \A i \in 1..Len(calls) : calls[i].op # "call")
        => \E p \in ProgramOrders :
              /\ SlotItems = Serial(p, Len(calls))
              /\ fatal_error_handlers = NULL <=> Serial(p, Len(calls)) = <<>>

\* four calls from two threads have returned, some of them overlapped, a
\* remove is among them and the list is not empty
C9_Witness ==
    /\ ENVOY_OBJECT_TRACE_ON_DUMP
    /\ Len(calls) >= 4
    /\ returned = 1..Len(calls)
    /\ \A i \in 1..Len(calls) : calls[i].op # "call"
    /\ \E i \in 1..Len(calls) : calls[i].op = "remove"
    /\ ~Sequential(Len(calls))
    /\ Len(SlotItems) >= 2

\* ---- C10 ----
\* C10: no registration is the subject of two onFatalError calls, whatever
\* the number of invocations and their interleaving with register and remove.
C10_AtMostOncePerRegistration ==
    \A i, j \in 1..Len(os) : i # j => os[i].reg # os[j].reg

\* two overlapping invocations have returned and handlers were called
C10_Witness ==
    \E k1, k2 \in returned :
        /\ calls[k1].op = "call" /\ calls[k2].op = "call"
        /\ k1 < k2 /\ k1 \notin calls[k2].before
        /\ Len(os) >= 2

\* ---- C11 ----
\* C11: in a build without ENVOY_OBJECT_TRACE_ON_DUMP, register and remove
\* never take failure_mutex, never allocate a list and leave the slot null,
\* so no invocation calls a handler.
C11_DisabledIsNoop ==
    ~ENVOY_OBJECT_TRACE_ON_DUMP =>
        /\ fatal_error_handlers = NULL
        /\ failure_mutex = NULL
        /\ \A a \in ListIds : heap[a].st = "unalloc"
        /\ os = <<>>
        /\ \A t \in Threads : pc[t] \in {"idle", "r_noop", "u_noop"} \cup CallPcs

\* without the flag a register, a remove and then an invocation have returned
C11_Witness ==
    /\ ~ENVOY_OBJECT_TRACE_ON_DUMP
    /\ \E r, u, k \in returned :
          /\ calls[r].op = "register" /\ calls[u].op = "remove"
          /\ calls[k].op = "call" /\ r \in calls[k].before /\ u \in calls[k].before

\* ---- C12 ----
\* C12: a remove that finds the list empty after list->remove deletes it and
\* leaves the slot null, and the slot never points to an empty or deleted
\* list.
C12_NoEmptyListInSlot ==
    /\ fatal_error_handlers # NULL =>
          Live(fatal_error_handlers) /\ heap[fatal_error_handlers].items # <<>>
    /\ \A t \in Threads :
          /\ pc[t] = "u_delete" =>
                heap[list[t]].items = <<>> /\ fatal_error_handlers = NULL
          /\ pc[t] = "u_store" => heap[list[t]].items # <<>>
          /\ (pc[t] = "u_unlock" /\ heap[list[t]].items = <<>>) =>
                heap[list[t]].st = "freed" /\ fatal_error_handlers = NULL

\* a remove that erased the only entry has returned: list freed, slot null
C12_Witness ==
    /\ ENVOY_OBJECT_TRACE_ON_DUMP
    /\ \E h \in Handlers : Ops = <<<<"register", h>>, <<"remove", h>>>>
    /\ returned = {1, 2}
    /\ heap[1].st = "freed"
    /\ fatal_error_handlers = NULL
\* ---- C13 ----
\* the element thread t pushes in the register call it is running
OwnEntry(t) == Entry(handler[t], cur[t])

\* C13 as stated: when a register call returns, the slot is non-null and
\* points to a list whose last element is the handler just registered, in
\* every interleaving.
C13_Original ==
    [][\A t \in Threads :
          (pc[t] = "r_unlock" /\ pc'[t] = "idle") =>
              /\ fatal_error_handlers # NULL
              /\ Live(fatal_error_handlers)
              /\ SlotItems[Len(SlotItems)] = OwnEntry(t)]_vars

\* C13 amended: at its store a register call writes to the (null) slot a
\* non-null pointer to a live list whose last element is its handler; a call
\* whose exchange returned null allocated a fresh empty list before the
\* push, otherwise it pushed onto the list it took; the push keeps all
\* earlier entries, in order, in front of the new one.
C13_StoreAppends ==
    [][\A t \in Threads :
          /\ (pc[t] = "r_new" /\ pc'[t] = "r_push") =>
                IF list[t] = NULL
                  THEN /\ list'[t] # NULL
                       /\ heap[list'[t]].st = "unalloc"
                       /\ heap'[list'[t]] = [st |-> "live", items |-> <<>>]
                  ELSE list'[t] = list[t] /\ heap' = heap
          /\ (pc[t] = "r_push" /\ pc'[t] = "r_store") =>
                /\ Live(list[t])
                /\ \A n \in 1..Len(heap[list[t]].items) :
                      heap[list[t]].items[n].reg \in returned
                /\ heap'[list[t]].items = heap[list[t]].items \o <<OwnEntry(t)>>
          /\ (pc[t] = "r_store" /\ pc'[t] = "r_unlock") =>
                /\ list[t] # NULL /\ Live(list[t])
                /\ fatal_error_handlers = NULL
                /\ fatal_error_handlers' = list[t]
                /\ SlotItems'[Len(SlotItems')] = OwnEntry(t)
                /\ \A n \in 1..(Len(SlotItems') - 1) :
                      SlotItems'[n].reg \in returned]_vars

\* a register that overlapped an invocation has returned, and the slot holds
\* a list with an earlier entry in front of the one it pushed
C13_Witness ==
    \E r \in returned : \E k \in 1..Len(calls) :
        /\ calls[r].op = "register" /\ calls[k].op = "call"
        /\ r \notin calls[k].before /\ k \notin calls[r].before
        /\ Len(SlotItems) >= 2
        /\ SlotItems[Len(SlotItems)].reg = r
\* ---- C14 ----
\* call i of the first n calls is a register whose handler no later call of
\* the first n removes
Survives(i, n) ==
    /\ calls[i].op = "register"
    /\ ~\E j \in (i + 1)..n : calls[j].op = "remove" /\ calls[j].h = calls[i].h

\* the registrations among the first n calls that survive, in the order made
Surviving(n) ==
    SelectSeq([i \in 1..n |-> Entry(calls[i].h, i)], LAMBDA e : Survives(e.reg, n))

\* C14: after register and remove calls made one after the other the slot
\* holds exactly the surviving registrations in the order they were made (a
\* remove erases only entries of its own handler, and none when its handler
\* is not in the list), and an invocation made then calls them in that order.
C14_SurvivorsKeepOrder ==
    ENVOY_OBJECT_TRACE_ON_DUMP =>
        /\ (/\ Sequential(Len(calls))
            /\ returned = 1..Len(calls)
            /\ \A i \in 1..Len(calls) : calls[i].op # "call")
              => SlotItems = Surviving(Len(calls))
        /\ \A k \in 1..Len(calls) :
              (/\ calls[k].op = "call"
               /\ k \in returned
               /\ \A i \in 1..(k - 1) : calls[i].op # "call"
               /\ Sequential(k - 1)
               /\ RanAlone(k))
                 => OsOf(k) = Printed(k, Surviving(k - 1))

\* register(a), register(b), remove(a), invoke with a # b: only b is called;
\* or register(a), remove(b), register(b), invoke: a then b are called
C14_Witness ==
    \E a, b \in Handlers :
        /\ a # b
        /\ \/ /\ Scenario(<<<<"register", a>>, <<"register", b>>, <<"remove", a>>,
                            <<"call", NULL>>>>)
              /\ os = Printed(4, <<Entry(b, 2)>>)
           \/ /\ Scenario(<<<<"register", a>>, <<"remove", b>>, <<"register", b>>,
                            <<"call", NULL>>>>)
              /\ os = Printed(4, <<Entry(a, 1), Entry(b, 3)>>)
\* ---- C15 ----
\* invocation k has returned without calling registration r, although the
\* register call r had returned before k was entered, no remove of r's
\* handler and no other invocation was entered before k returned
Missed(k, r) ==
    /\ ENVOY_OBJECT_TRACE_ON_DUMP
    /\ k \in returned /\ calls[k].op = "call"
    /\ r \in calls[k].before /\ calls[r].op = "register"
    /\ \A j \in 1..Len(calls) :
          (j # k /\ k \notin calls[j].before) =>
              \/ calls[j].op = "register"
              \/ calls[j].op = "remove" /\ calls[j].h # calls[r].h
    /\ \A n \in 1..Len(os) : ~(os[n].inv = k /\ os[n].reg = r)

\* C15: an invocation misses a registration that was complete and never
\* removed only when its exchange happened while a register or remove call
\* had the list checked out; it then got null and called no handler at all.
\* (C15_Witness is the reachable state in which this happens.)
C15_MissOnlyWhenCheckedOut ==
    \A k, r \in 1..Len(calls) :
        Missed(k, r) => k \in xchgBusy /\ OsOf(k) = <<>>

C15_Witness == \E k, r \in 1..Len(calls) : Missed(k, r)
\* ---- C16 ----
\* the entries a handler fault left unreached are never the subject of an
\* onFatalError call, and the invocation that faulted never returns
SkippedNeverRun ==
    \A f \in faulted :
        /\ f.inv \notin returned
        /\ \A n \in 1..Len(f.skipped) : \A m \in 1..Len(os) :
              os[m].reg # f.skipped[n].reg

\* C16 as stated: the handlers after a faulting one are not invoked, and an
\* invocation entered while another is in its loop calls no handler.
C16_Original ==
    /\ SkippedNeverRun
    /\ \A p \in nested : OsOf(p[2]) = <<>>

\* C16 amended: the handlers after a faulting one are not invoked, and an
\* invocation entered while another is in its loop calls no registration
\* whose register call had returned before that other invocation was
\* entered; it calls nothing at all when every register call made had
\* returned by then.
C16_FaultCutsEpisode ==
    /\ SkippedNeverRun
    /\ \A p \in nested :
          /\ \A m \in 1..Len(os) :
                os[m].inv = p[2] => os[m].reg \notin calls[p[1]].before
          /\ (\A r \in 1..Len(calls) :
                 calls[r].op = "register" => r \in calls[p[1]].before)
               => OsOf(p[2]) = <<>>

\* a handler faulted with another entry behind it, and the invocation nested
\* on the same thread has returned
C16_Witness ==
    \E f \in faulted : \E k \in returned :
        /\ f.skipped # <<>>
        /\ <<f.inv, k>> \in nested
        /\ calls[k].t = calls[f.inv].t
\* ---- C17 ----
\* C17: with every thread scheduled fairly and handlers that return, every
\* register, remove and invocation that is entered returns; failure_mutex
\* is free whenever no call is running, and while a call is running some
\* thread can take a step.
C17_EveryCallCompletes ==
    /\ \A t \in Threads : (pc[t] # "idle") ~> (pc[t] = "idle")
    /\ [](Quiescent => failure_mutex = NULL)
    /\ []((~Quiescent) => \E t \in Threads : ENABLED ThreadStep(t))

\* calls that overlapped have all returned, the first of them a remove that
\* found the slot null and returned early, and the mutex is free
C17_Witness ==
    /\ ENVOY_OBJECT_TRACE_ON_DUMP
    /\ Quiescent
    /\ Len(calls) >= 3
    /\ returned = 1..Len(calls)
    /\ calls[1].op = "remove"
    /\ \E i, j \in 2..Len(calls) :
          /\ i < j /\ i \notin calls[j].before
          /\ calls[i].op # "call" /\ calls[j].op # "call"
    /\ failure_mutex = NULL
\* ---- C18 ----
\* C18: every live list is referenced by the slot or held by a call between
\* its exchange and its store or delete; the stores of register and remove
\* find the slot null, only the holder of failure_mutex writes a non-null
\* value to the slot, and an invocation only writes null.
C18_NoLeak ==
    /\ [](/\ \A a \in ListIds :
                Live(a) => \/ fatal_error_handlers = a
                           \/ \E t \in Threads : Holds(t) /\ list[t] = a
          /\ \A t \in Threads :
                pc[t] \in {"r_store", "u_store"} => fatal_error_handlers = NULL)
    /\ [][/\ (fatal_error_handlers' # fatal_error_handlers
                /\ fatal_error_handlers' # NULL) =>
                   /\ fatal_error_handlers = NULL
                   /\ failure_mutex # NULL
                   /\ pc[failure_mutex] \in {"r_store", "u_store"}
                   /\ fatal_error_handlers' = list[failure_mutex]
          /\ \A t \in Threads :
                CallStep(t) => fatal_error_handlers' = NULL
                               \/ fatal_error_handlers' = fatal_error_handlers]_vars

\* a register or remove has stored its list back while an invocation that
\* had exchanged null out of the slot is still running
C18_Witness ==
    \E t, u \in Threads :
        /\ pc[t] \in {"r_unlock", "u_unlock"}
        /\ Live(list[t]) /\ fatal_error_handlers = list[t]
        /\ pc[u] = "c_check" /\ list[u] = NULL
====
